---- MODULE Spec2Model ----
(***************************************************************************)
(* Sudoku demo board (backtracking solver with step visualisation) and the *)
(* learning-game board: its solution checker (GameSpec), its editing       *)
(* handlers with undo / redo (EditSpec) and its step mode (StepSpec); the  *)
(* demo board's editing is DemoSpec.                                       *)
(*                                                                         *)
(* A board is a JavaScript array of nine row arrays.  Row arrays are       *)
(* mutable objects that several boards may share, so a board is modelled   *)
(* as nine row addresses into `heap`.  The outer arrays are never written  *)
(* after they have been handed on, so they are modelled as values.         *)
(***************************************************************************)
EXTENDS Integers, Sequences, FiniteSets, TLC

VARIABLES
  heap,        \* row address -> row contents (the row arrays that are alive)
  board,       \* demo Board: React state `board`, nine row addresses
  isSolving,   \* demo Board: React state `isSolving`
  boardCopy,   \* handleSolveClick: the local boardCopy, <<>> before the first run
  stack,       \* solveSudoku: the suspended activations, innermost last
  result,      \* what the outermost solveSudoku call returned: "none", "true", "false"
  startBoard,  \* contents of boardCopy when the run started
  trace,       \* the last MaxLog placements / removals of the run
  snaps,       \* the last MaxLog snapshots handed to setBoard
  nSteps,      \* number of placements and removals of the run
  nEmit,       \* number of setBoard calls of the run
  runs,        \* number of Solve clicks so far
  uiBoard,     \* the `board` state handleSolveClick read when the run started
  refused,     \* a Solve request met isSolving = true during the run
  demoSelectedCell, \* demo Board: React state `selectedCell`, <<>> for null
  gBoard,      \* game Board: React state `board` (contents)
  conflictCells, \* game Board: React state `conflictCells`
  achievements,  \* game Board: ids of the achievements earned
  hintsUsed,     \* game Board: React state `hintsUsed`
  timers,        \* game Board: pending 2 s timers that reset conflictCells
  checks,        \* results of the checkSolution calls so far, latest last
  pencilMarks,   \* game Board: React state `pencilMarks`, a sorted list per cell
  isPencilMode,  \* game Board: React state `isPencilMode`
  initialBoardState, \* game Board: which cells are givens of the puzzle
  selectedCell,  \* game Board: <<row, col>>, or <<>> for null
  history,       \* game Board: React state `history` (undo), oldest first
  historyIndex,  \* game Board: React state `historyIndex`, -1 when empty
  future,        \* game Board: React state `future` (redo), next first
  score,         \* game Board: React state `score`
  lastOp,        \* the editing operation made last, "none" at the start
  nOps,          \* number of editing operations so far
  solutionSteps, \* game Board: React state `solutionSteps`
  currentStepIndex, \* game Board: React state `currentStepIndex`
  isStepMode,    \* game Board: React state `isStepMode`
  stepEntryBoard \* the board Show Me How was clicked on, <<>> outside step mode

vars == <<heap, board, isSolving, boardCopy, stack, result, startBoard, trace,
          snaps, nSteps, nEmit, runs, uiBoard, refused, gBoard, conflictCells,
          achievements, hintsUsed, timers, checks, pencilMarks, isPencilMode,
          initialBoardState, selectedCell, history, historyIndex, future,
          score, lastOp, nOps, demoSelectedCell, solutionSteps,
          currentStepIndex, isStepMode, stepEntryBoard>>

demoVars == <<heap, board, isSolving, boardCopy, stack, result, startBoard,
              trace, snaps, nSteps, nEmit, runs, uiBoard, refused,
              demoSelectedCell>>

editVars == <<pencilMarks, isPencilMode, initialBoardState, selectedCell,
              history, historyIndex, future, score, lastOp, nOps>>

checkVars == <<gBoard, conflictCells, achievements, hintsUsed, timers, checks>>

stepVars == <<solutionSteps, currentStepIndex, isStepMode, stepEntryBoard>>

gameVars == <<checkVars, editVars, stepVars>>

----------------------------------------------------------------------------
(* Bounds *)

MaxLog == 12    \* how many of the latest snapshots / steps are remembered
MaxRuns == 1    \* Solve clicks per behaviour
MaxChecks == 2  \* Check clicks per behaviour
MaxOps == 4     \* editing operations per behaviour

----------------------------------------------------------------------------
(* Cells and boards *)

null == -1           \* the empty marker of CellValue = number | null
Idx == 0..8
Digits == 1..9
Pos == Idx \X Idx

ToBoard(rows) == [r \in Idx |-> [c \in Idx |-> rows[r + 1][c + 1]]]

exampleBoard ==
  ToBoard(<< <<5, 3, null, null, 7, null, null, null, null>>,
             <<6, null, null, 1, 9, 5, null, null, null>>,
             <<null, 9, 8, null, null, null, null, 6, null>>,
             <<8, null, null, null, 6, null, null, null, 3>>,
             <<4, null, null, 8, null, 3, null, null, 1>>,
             <<7, null, null, null, 2, null, null, null, 6>>,
             <<null, 6, null, null, null, null, 2, 8, null>>,
             <<null, null, null, 4, 1, 9, null, null, 5>>,
             <<null, null, null, null, 8, null, null, 7, 9>> >>)

Min(S) == CHOOSE x \in S : \A y \in S : x <= y

Deref(h, ref) == [r \in Idx |-> h[ref[r]]]

SetCell(b, row, col, v) == [b EXCEPT ![row][col] = v]

----------------------------------------------------------------------------
(* Starting boards.  The demo board is the example puzzle after the user   *)
(* has typed values into cells that are not part of the puzzle: here the   *)
(* puzzle's solution, except that each cell of Pool holds one of its       *)
(* listed contents (a digit typed, null = never filled or toggled off,     *)
(* 0 = left by the Clear button).  The example puzzle itself is included.  *)

solvedGrid ==
  ToBoard(<< <<5, 3, 4, 6, 7, 8, 9, 1, 2>>,
             <<6, 7, 2, 1, 9, 5, 3, 4, 8>>,
             <<1, 9, 8, 3, 4, 2, 5, 6, 7>>,
             <<8, 5, 9, 7, 6, 1, 4, 2, 3>>,
             <<4, 2, 6, 8, 5, 3, 7, 9, 1>>,
             <<7, 1, 3, 9, 2, 4, 8, 5, 6>>,
             <<9, 6, 1, 5, 3, 7, 2, 8, 4>>,
             <<2, 8, 7, 4, 1, 9, 6, 3, 5>>,
             <<3, 4, 5, 2, 8, 6, 1, 7, 9>> >>)

Pool ==
  << [row |-> 0, col |-> 2, opts |-> <<4, null, 0>>],
     [row |-> 0, col |-> 8, opts |-> <<2, null>>],
     [row |-> 1, col |-> 2, opts |-> <<2, null>>],
     [row |-> 6, col |-> 2, opts |-> <<1, 4, null>>],
     [row |-> 6, col |-> 8, opts |-> <<4, 0, null>>],
     [row |-> 8, col |-> 1, opts |-> <<4, 0, null>> ] >>

Choices(pool) ==
  {f \in [DOMAIN pool -> 1..3] : \A i \in DOMAIN pool : f[i] <= Len(pool[i].opts)}

Entered(pool, f) ==
  [r \in Idx |-> [c \in Idx |->
     IF \E i \in DOMAIN pool : pool[i].row = r /\ pool[i].col = c
     THEN LET i == CHOOSE j \in DOMAIN pool : pool[j].row = r /\ pool[j].col = c
          IN pool[i].opts[f[i]]
     ELSE solvedGrid[r][c]]]

StartBoards == {Entered(Pool, f) : f \in Choices(Pool)} \cup {exampleBoard}

(* The game board holds null or a digit in every cell (its Clear writes    *)
(* null): the boards above without a 0, with 6 or 5 in the cell (0, 3).    *)
GamePool == Pool \o << [row |-> 0, col |-> 3, opts |-> <<6, 5>>] >>

GameBoards ==
  {b \in {Entered(GamePool, f) : f \in Choices(GamePool)} \cup {exampleBoard} :
     \A p \in Pos : b[p[1]][p[2]] # 0}

----------------------------------------------------------------------------
(* Demo board: the validator *)

isValidRowColOnly(b, row, col, num) ==
  /\ \A x \in Idx : b[row][x] # num
  /\ \A x \in Idx : b[x][col] # num

isValidSkipOwnCell(b, row, col, num) ==
  /\ \A x \in Idx \ {col} : b[row][x] # num
  /\ \A x \in Idx \ {row} : b[x][col] # num
  /\ LET boxStartRow == (row \div 3) * 3
         boxStartCol == (col \div 3) * 3
     IN \A i \in 0..2 : \A j \in 0..2 :
          (boxStartRow + i # row \/ boxStartCol + j # col)
            => b[boxStartRow + i][boxStartCol + j] # num

(* Each loop returns false at the first cell equal to num, the cell        *)
(* (row, col) itself included; true when all three loops run through.      *)
isValid(b, row, col, num) ==
  /\ \A x \in Idx : b[row][x] # num
  /\ \A x \in Idx : b[x][col] # num
  /\ LET boxStartRow == (row \div 3) * 3
         boxStartCol == (col \div 3) * 3
     IN \A i \in 0..2 : \A j \in 0..2 : b[boxStartRow + i][boxStartCol + j] # num

----------------------------------------------------------------------------
(* Demo board: the row arrays *)

FreeAddrs(h) == (1..(Cardinality(DOMAIN h) + 9)) \ DOMAIN h

\* the n-th unused address, n = 0, 1, ...
NewAddr(h, n) ==
  CHOOSE a \in FreeAddrs(h) : Cardinality({x \in FreeAddrs(h) : x < a}) = n

Store(h, a, rowVal) == [x \in DOMAIN h \cup {a} |-> IF x = a THEN rowVal ELSE h[x]]

\* JSON.parse(JSON.stringify(v)) of a cell: null stays null, a number is
\* printed in decimal and read back.
jsonCell(v) == IF v = null THEN null ELSE v

jsonCopyRefAlias(h) == board

\* JSON.parse(JSON.stringify(board)): nine new row arrays with the same cells
jsonCopyRef(h) == [r \in Idx |-> NewAddr(h, r)]

jsonCopyHeap(h, ref) ==
  [x \in DOMAIN h \cup {NewAddr(h, r) : r \in Idx} |->
     IF x \in DOMAIN h THEN h[x]
     ELSE LET r == CHOOSE q \in Idx : NewAddr(h, q) = x
          IN [c \in Idx |-> jsonCell(h[ref[r]][c])]]

RefsOf(brd, cpy, stk, snp) ==
  {brd[r] : r \in Idx}
  \cup (IF cpy = <<>> THEN {} ELSE {cpy[r] : r \in Idx})
  \cup UNION {{stk[i].board[r] : r \in Idx} \cup {stk[i].newBoard[r] : r \in Idx}
              : i \in DOMAIN stk}
  \cup UNION {{snp[i].ref[r] : r \in Idx} : i \in DOMAIN snp}

RowsOf(ref) == IF ref = <<>> THEN {} ELSE {ref[r] : r \in Idx}

\* row arrays nothing refers to any more are collected
Collect(h, live) == [x \in DOMAIN h \cap live |-> h[x]]

----------------------------------------------------------------------------
(* Demo board: solveSudoku, run from one suspension (await) to the next.   *)
(* A step yields the new heap and stack, the board handed to setBoard (if  *)
(* any), the placement or removal made (if any) and the value returned by  *)
(* the outermost call ("none" while the run is suspended).                 *)

Finished(h, value) ==
  [heap |-> h, stack |-> <<>>, emitted |-> <<>>, ev |-> <<>>, ret |-> value]

EmptyCells(b) == {p \in Pos : b[p[1]][p[2]] = null}

LastEmpty(b) ==
  CHOOSE p \in EmptyCells(b) :
    \A q \in EmptyCells(b) : p[1] * 9 + p[2] >= q[1] * 9 + q[2]

\* the first cell found by the row / col loops with board[row][col] === null
FirstEmpty(b) ==
  CHOOSE p \in EmptyCells(b) :
    \A q \in EmptyCells(b) : p[1] * 9 + p[2] <= q[1] * 9 + q[2]

PlaceNoEmit(h, stk, b, row, col, num) ==
  LET a == NewAddr(h, 0)
      newBoard == [b EXCEPT ![row] = a]
      h2 == Store(h, a, [h[b[row]] EXCEPT ![col] = num])
  IN [heap |-> h2,
      stack |-> Append(stk, [board |-> b, row |-> row, col |-> col, num |-> num,
                             newBoard |-> newBoard, pc |-> "placed"]),
      emitted |-> <<>>,
      ev |-> <<[op |-> "place", row |-> row, col |-> col, num |-> num]>>,
      ret |-> "none"]

PlaceInPlace(h, stk, b, row, col, num) ==
  LET h2 == [h EXCEPT ![b[row]][col] = num]
  IN [heap |-> h2,
      stack |-> Append(stk, [board |-> b, row |-> row, col |-> col, num |-> num,
                             newBoard |-> b, pc |-> "placed"]),
      emitted |-> <<b>>,
      ev |-> <<[op |-> "place", row |-> row, col |-> col, num |-> num]>>,
      ret |-> "none"]

\* lines 160-168: copy the outer array and the row, place num, setBoard, await
Place(h, stk, b, row, col, num) ==
  LET a == NewAddr(h, 0)
      newBoard == [b EXCEPT ![row] = a]
      h2 == Store(h, a, [h[b[row]] EXCEPT ![col] = num])
  IN [heap |-> h2,
      stack |-> Append(stk, [board |-> b, row |-> row, col |-> col, num |-> num,
                             newBoard |-> newBoard, pc |-> "placed"]),
      emitted |-> <<newBoard>>,
      ev |-> <<[op |-> "place", row |-> row, col |-> col, num |-> num]>>,
      ret |-> "none"]

BacktrackClearsLeft(h, stk) ==
  LET f == stk[Len(stk)]
      h2 == [h EXCEPT ![f.newBoard[f.row]][IF f.col > 0 THEN f.col - 1 ELSE f.col] = null]
  IN [heap |-> h2,
      stack |-> [stk EXCEPT ![Len(stk)].pc = "removed"],
      emitted |-> <<f.newBoard>>,
      ev |-> <<[op |-> "remove", row |-> f.row, col |-> f.col, num |-> f.num]>>,
      ret |-> "none"]

BacktrackNoEmit(h, stk) ==
  LET f == stk[Len(stk)]
      h2 == [h EXCEPT ![f.newBoard[f.row]][f.col] = null]
  IN [heap |-> h2,
      stack |-> [stk EXCEPT ![Len(stk)].pc = "removed"],
      emitted |-> <<>>,
      ev |-> <<[op |-> "remove", row |-> f.row, col |-> f.col, num |-> f.num]>>,
      ret |-> "none"]

BacktrackThenPlace(h, stk) ==
  LET f == stk[Len(stk)]
      h2 == [h EXCEPT ![f.newBoard[f.row]][f.col] = null]
      removal == [op |-> "remove", row |-> f.row, col |-> f.col, num |-> f.num]
      cands == {m \in (f.num + 1)..9 : isValid(Deref(h2, f.board), f.row, f.col, m)}
  IN IF cands = {}
     THEN [heap |-> h2,
           stack |-> [stk EXCEPT ![Len(stk)].pc = "removed"],
           emitted |-> <<f.newBoard>>,
           ev |-> <<removal>>,
           ret |-> "none"]
     ELSE LET a == NewAddr(h2, 0)
              newBoard == [f.board EXCEPT ![f.row] = a]
          IN [heap |-> Store(h2, a, [h2[f.board[f.row]] EXCEPT ![f.col] = Min(cands)]),
              stack |-> [stk EXCEPT ![Len(stk)] =
                           [board |-> f.board, row |-> f.row, col |-> f.col,
                            num |-> Min(cands), newBoard |-> newBoard, pc |-> "placed"]],
              emitted |-> <<f.newBoard, newBoard>>,
              ev |-> <<removal, [op |-> "place", row |-> f.row, col |-> f.col,
                                 num |-> Min(cands)]>>,
              ret |-> "none"]

BacktrackNoClear(h, stk) ==
  LET f == stk[Len(stk)]
  IN [heap |-> h,
      stack |-> [stk EXCEPT ![Len(stk)].pc = "removed"],
      emitted |-> <<f.newBoard>>,
      ev |-> <<[op |-> "remove", row |-> f.row, col |-> f.col, num |-> f.num]>>,
      ret |-> "none"]

\* lines 176-178 in the innermost suspended activation: the recursive call
\* returned false; clear the cell in newBoard's own row, setBoard, await
Backtrack(h, stk) ==
  LET f == stk[Len(stk)]
      h2 == [h EXCEPT ![f.newBoard[f.row]][f.col] = null]
  IN [heap |-> h2,
      stack |-> [stk EXCEPT ![Len(stk)].pc = "removed"],
      emitted |-> <<f.newBoard>>,
      ev |-> <<[op |-> "remove", row |-> f.row, col |-> f.col, num |-> f.num]>>,
      ret |-> "none"]

\* line 181: an activation returns false to its caller
ReturnFalse(h, stk) ==
  IF stk = <<>> THEN Finished(h, "false") ELSE Backtrack(h, stk)

\* lines 157-181: the for loop over num, entered at num = from
TryFrom(h, stk, b, row, col, from) ==
  LET cands == {m \in from..9 : isValid(Deref(h, b), row, col, m)}
  IN IF cands = {} THEN ReturnFalse(h, stk)
     ELSE Place(h, stk, b, row, col, Min(cands))

EnterFullFails(h, stk, b) ==
  IF EmptyCells(Deref(h, b)) = {} THEN Finished(h, "false")
  ELSE LET p == FirstEmpty(Deref(h, b))
       IN TryFrom(h, stk, b, p[1], p[2], 1)

\* lines 152-185: a call solveSudoku(b); with no empty cell it returns true,
\* and so does every suspended caller (line 172)
Enter(h, stk, b) ==
  IF EmptyCells(Deref(h, b)) = {} THEN Finished(h, "true")
  ELSE LET p == FirstEmpty(Deref(h, b))
       IN TryFrom(h, stk, b, p[1], p[2], 1)

Window(s) == IF Len(s) > MaxLog THEN SubSeq(s, Len(s) - MaxLog + 1, Len(s)) ELSE s

Snap(h, ref) == [ref |-> ref, val |-> Deref(h, ref)]

\* the effect of a step on the component: setBoard(snapshot) replaces the
\* board state (taken as shown at the call: the timer of the await is set
\* after it), the finally block resets isSolving when the run is over
Commit(res, cpy, held, oldSnaps, oldTrace, oldEmit, oldSteps) ==
  LET brd == IF res.emitted = <<>> THEN board ELSE res.emitted[1]
      snp == Window(oldSnaps \o [i \in DOMAIN res.emitted |-> Snap(res.heap, res.emitted[i])])
  IN /\ stack' = res.stack
     /\ board' = brd
     /\ boardCopy' = cpy
     /\ snaps' = snp
     /\ trace' = Window(oldTrace \o res.ev)
     /\ nEmit' = oldEmit + Len(res.emitted)
     /\ nSteps' = oldSteps + Len(res.ev)
     /\ result' = res.ret
     /\ isSolving' = (res.ret = "none")
     /\ heap' = Collect(res.heap, RefsOf(brd, cpy, res.stack, snp) \cup RowsOf(held))

\* Solve button (disabled while isSolving): handleSolveClick up to the first
\* await of the run, or to its end when the run does not suspend
HandleSolveClick ==
  /\ ~isSolving
  /\ runs < MaxRuns
  /\ runs' = runs + 1
  /\ LET cpy == jsonCopyRef(heap)
         h1 == jsonCopyHeap(heap, board)
     IN /\ startBoard' = Deref(h1, cpy)
        /\ Commit(Enter(h1, <<>>, cpy), cpy, board, <<>>, <<>>, 0, 0)
  /\ uiBoard' = board
  /\ refused' = FALSE
  /\ UNCHANGED <<demoSelectedCell, gameVars>>

\* the timer of line 168 fires: the recursive call of line 171 starts
ResumePlaced ==
  /\ stack # <<>>
  /\ stack[Len(stack)].pc = "placed"
  /\ Commit(Enter(heap, stack, stack[Len(stack)].newBoard),
            boardCopy, uiBoard, snaps, trace, nEmit, nSteps)
  /\ UNCHANGED <<runs, startBoard, uiBoard, refused>>
  /\ UNCHANGED <<demoSelectedCell, gameVars>>

\* the timer of line 178 fires: the for loop goes on with num + 1
ResumeRemoved ==
  /\ stack # <<>>
  /\ stack[Len(stack)].pc = "removed"
  /\ LET f == stack[Len(stack)]
     IN Commit(TryFrom(heap, SubSeq(stack, 1, Len(stack) - 1), f.board, f.row, f.col, f.num + 1),
               boardCopy, uiBoard, snaps, trace, nEmit, nSteps)
  /\ UNCHANGED <<runs, startBoard, uiBoard, refused>>
  /\ UNCHANGED <<demoSelectedCell, gameVars>>

Resume == ResumePlaced \/ ResumeRemoved

SolveRequestStartsAgain ==
  /\ isSolving
  /\ runs' = runs + 1
  /\ refused' = TRUE
  /\ uiBoard' = board
  /\ LET cpy == jsonCopyRef(heap)
         h1 == jsonCopyHeap(heap, board)
     IN /\ startBoard' = Deref(h1, cpy)
        /\ Commit(Enter(h1, <<>>, cpy), cpy, board, <<>>, <<>>, 0, 0)
  /\ UNCHANGED <<demoSelectedCell, gameVars>>

\* line 190: handleSolveClick called while isSolving is true returns at once
SolveRequestWhileSolving ==
  /\ isSolving
  /\ refused' = TRUE
  /\ UNCHANGED <<heap, board, isSolving, boardCopy, stack, result, startBoard,
                 trace, snaps, nSteps, nEmit, runs, uiBoard>>
  /\ UNCHANGED <<demoSelectedCell, gameVars>>

----------------------------------------------------------------------------
(* Game board: checkSolution *)

\* !value of a cell: null and 0 are falsy
Falsy(v) == v = null \/ v = 0

\* the key `${row},${c}` added to the conflicts Set, and its parse
\* coord.split(',').map(Number)
coordKey(r, c) == <<r, ",", c>>
coordOf(k) == <<k[1], k[3]>>

\* the values met a second time while scanning the cells `unit` in the order
\* `ord`: truthy, and already in `seen`
seenAgain(b, unit, ord) ==
  {b[q[1]][q[2]] : q \in
     {q \in unit : /\ ~Falsy(b[q[1]][q[2]])
                   /\ \E x \in unit : /\ ord[x] < ord[q]
                                      /\ ~Falsy(b[x[1]][x[2]])
                                      /\ b[x[1]][x[2]] = b[q[1]][q[2]]}}

\* every cell of the unit holding (===) a value met a second time is added
unitConflicts(b, unit, ord) ==
  LET again == seenAgain(b, unit, ord)
  IN {coordKey(p[1], p[2]) : p \in {p \in unit : b[p[1]][p[2]] \in again}}

colOf == [p \in Pos |-> p[2]]
rowOf == [p \in Pos |-> p[1]]

\* lines 698-713
rowConflicts(b, row) == unitConflicts(b, {row} \X Idx, colOf)

\* lines 716-731
colConflicts(b, col) == unitConflicts(b, Idx \X {col}, rowOf)

boxCells(boxRow, boxCol) == (boxRow * 3 .. boxRow * 3 + 2) \X (boxCol * 3 .. boxCol * 3 + 2)

\* position of a cell in the scan order of its box (row by row)
boxOrder == [p \in Pos |-> (p[1] % 3) * 3 + (p[2] % 3)]

\* lines 734-755
boxConflicts(b, boxRow, boxCol) == unitConflicts(b, boxCells(boxRow, boxCol), boxOrder)

checkSolutionRowsOnly(b) ==
  LET conflicts == UNION {rowConflicts(b, row) : row \in Idx}
      isComplete == \A row \in Idx : \A col \in Idx : ~Falsy(b[row][col])
  IN [isValid |-> isComplete /\ Cardinality(conflicts) = 0,
      conflicts |-> {coordOf(k) : k \in conflicts}]

checkSolutionNoComplete(b) ==
  LET conflicts == UNION {rowConflicts(b, row) : row \in Idx}
                   \cup UNION {colConflicts(b, col) : col \in Idx}
                   \cup UNION {boxConflicts(b, br, bc) : br \in 0..2, bc \in 0..2}
  IN [isValid |-> Cardinality(conflicts) = 0,
      conflicts |-> {coordOf(k) : k \in conflicts}]

\* lines 694-778, on the board b; the returned list (the Set's insertion
\* order, without repetitions) is kept as the set of its positions
checkSolution(b) ==
  LET conflicts == UNION {rowConflicts(b, row) : row \in Idx}
                   \cup UNION {colConflicts(b, col) : col \in Idx}
                   \cup UNION {boxConflicts(b, br, bc) : br \in 0..2, bc \in 0..2}
      isComplete == \A row \in Idx : \A col \in Idx : ~Falsy(b[row][col])
  IN [isValid |-> isComplete /\ Cardinality(conflicts) = 0,
      conflicts |-> {coordOf(k) : k \in conflicts}]

HandleCheckSolutionClearing(fast) ==
  /\ Len(checks) < MaxChecks
  /\ LET r == checkSolution(gBoard)
     IN /\ checks' = Append(checks, r)
        /\ gBoard' = [row \in Idx |-> [col \in Idx |->
                        IF <<row, col>> \in r.conflicts THEN null ELSE gBoard[row][col]]]
        /\ conflictCells' = IF r.isValid THEN {} ELSE r.conflicts
        /\ timers' = IF r.isValid THEN timers ELSE timers + 1
        /\ UNCHANGED <<achievements, hintsUsed>>
  /\ UNCHANGED <<editVars, stepVars>>
  /\ UNCHANGED demoVars

\* Check button: handleCheckSolution; `fast` is timeTaken < 300
HandleCheckSolution(fast) ==
  /\ Len(checks) < MaxChecks
  /\ LET r == checkSolution(gBoard)
     IN /\ checks' = Append(checks, r)
        /\ IF r.isValid
           THEN /\ conflictCells' = {}
                /\ achievements' = achievements \cup {"first-solve"}
                                     \cup (IF hintsUsed = 0 THEN {"no-hint-master"} ELSE {})
                                     \cup (IF fast THEN {"speed-demon"} ELSE {})
                /\ timers' = timers
           ELSE /\ conflictCells' = r.conflicts
                /\ timers' = timers + 1
                /\ achievements' = achievements
  /\ UNCHANGED <<gBoard, hintsUsed>>
  /\ UNCHANGED <<editVars, stepVars>>
  /\ UNCHANGED demoVars

\* the 2 s timer set by handleCheckSolution fires: setConflictCells([])
ConflictTimeout ==
  /\ timers > 0
  /\ timers' = timers - 1
  /\ conflictCells' = {}
  /\ UNCHANGED <<gBoard, achievements, hintsUsed, checks>>
  /\ UNCHANGED <<editVars, stepVars>>
  /\ UNCHANGED demoVars

----------------------------------------------------------------------------
(* Game board: editing.  The puzzle comes from the library call            *)
(* generateSudoku('easy'); the example puzzle stands for it.  A list of    *)
(* pencil marks is kept as the code keeps it, ascending and without        *)
(* repetition.                                                             *)

generatedPuzzle == exampleBoard

noMarks == [r \in Idx |-> [c \in Idx |-> <<>>]]

\* newBoard.map(row => row.map(cell => cell !== null))
initialCells(b) == [r \in Idx |-> [c \in Idx |-> b[r][c] # null]]

LastN(q, n) == IF Len(q) > n THEN SubSeq(q, Len(q) - n + 1, Len(q)) ELSE q

FirstN(q, n) == IF Len(q) > n THEN SubSeq(q, 1, n) ELSE q

\* list.sort((a, b) => a - b), of a list without repetition
sortAsc(q) ==
  LET S == {q[i] : i \in DOMAIN q}
  IN [i \in 1..Cardinality(S) |-> CHOOSE x \in S : Cardinality({y \in S : y < x}) = i - 1]

\* the pencil-mark toggle: filter(n => n !== num) or [...marks, num].sort()
toggleMark(marks, num) ==
  IF \E i \in DOMAIN marks : marks[i] = num
  THEN SelectSeq(marks, LAMBDA n : n # num)
  ELSE sortAsc(Append(marks, num))

\* JSON.stringify(board): the text lists the cells row by row, an empty
\* cell as the word null, a number in decimal
stringify(b) ==
  [i \in 1..81 |-> LET v == b[(i - 1) \div 9][(i - 1) % 9]
                   IN IF v = null THEN [word |-> "null", number |-> 0]
                      ELSE [word |-> "number", number |-> v]]

\* JSON.parse(JSON.stringify(board))
jsonClone(b) ==
  LET text == stringify(b)
  IN [r \in Idx |-> [c \in Idx |-> LET t == text[r * 9 + c + 1]
                                   IN IF t.word = "null" THEN null ELSE t.number]]

\* JSON.stringify(pencilMarks): the lists of numbers, row by row
stringifyMarks(m) == [i \in 1..81 |-> m[(i - 1) \div 9][(i - 1) % 9]]

\* JSON.parse(JSON.stringify(pencilMarks))
jsonCloneMarks(m) ==
  LET text == stringifyMarks(m)
  IN [r \in Idx |-> [c \in Idx |-> text[r * 9 + c + 1]]]

\* the React state the editing handlers read and set
EditState ==
  [board |-> gBoard, pencilMarks |-> pencilMarks, isPencilMode |-> isPencilMode,
   selectedCell |-> selectedCell, history |-> history, historyIndex |-> historyIndex,
   future |-> future, score |-> score, achievements |-> achievements]

\* the history entry made of the current state
currentEntry == [board |-> jsonClone(gBoard), pencilMarks |-> jsonCloneMarks(pencilMarks)]

\* lines 375-393, called with (newBoard, newPencilMarks)
saveToHistory(st, newBoard, newPencilMarks) ==
  IF stringify(newBoard) = stringify(gBoard)
       /\ stringifyMarks(newPencilMarks) = stringifyMarks(pencilMarks)
  THEN st
  ELSE LET newHistory == Append(SubSeq(history, 1, historyIndex + 1), currentEntry)
       IN [st EXCEPT !.history = LastN(newHistory, 50),
                     !.historyIndex = Min({historyIndex + 1, 49}),
                     !.future = <<>>]

\* lines 395-409
undo ==
  IF historyIndex < 0 THEN EditState
  ELSE LET previousState == history[historyIndex + 1]
       IN [EditState EXCEPT !.board = previousState.board,
                            !.pencilMarks = previousState.pencilMarks,
                            !.future = FirstN(<<currentEntry>> \o future, 49),
                            !.historyIndex = historyIndex - 1]

\* lines 411-429
redo ==
  IF Len(future) = 0 THEN EditState
  ELSE LET nextState == future[1]
       IN [EditState EXCEPT !.board = nextState.board,
                            !.pencilMarks = nextState.pencilMarks,
                            !.history = LastN(Append(history, currentEntry), 50),
                            !.future = Tail(future),
                            !.historyIndex = Min({historyIndex + 1, 49})]

\* lines 432-450
handleClearCell ==
  IF selectedCell = <<>> THEN EditState
  ELSE LET row == selectedCell[1]
           col == selectedCell[2]
       IN IF initialBoardState[row][col] THEN EditState
          ELSE [saveToHistory(EditState, gBoard, pencilMarks) EXCEPT
                  !.board = SetCell(gBoard, row, col, null),
                  !.pencilMarks = SetCell(pencilMarks, row, col, <<>>)]

\* the answer of the library's hint(board) to isCorrectMove (lines 641-660):
\* "none" when its first step is not this move, else the step's strategy;
\* a step fills an empty cell
Strategies == {"naked-single", "hidden-single", "naked-pair"}

HintAnswers(row, col) ==
  IF gBoard[row][col] = null THEN Strategies \cup {"none"} ELSE {"none"}

\* awardPoints (lines 592-604)
points(strategy) ==
  IF strategy = "naked-single" THEN 10
  ELSE IF strategy = "hidden-single" THEN 20
  ELSE 5

\* checkAchievement(`${strategy}-master`): the achievement of that id, if
\* ALL_ACHIEVEMENTS has one
masterOf(strategy) ==
  IF strategy = "naked-single" THEN {"naked-single-master"}
  ELSE IF strategy = "hidden-single" THEN {"hidden-single-master"}
  ELSE {}

\* lines 606-667; answer is what hint(board) says of the move
handleNumberClick(num, answer) ==
  IF selectedCell = <<>> THEN EditState
  ELSE LET row == selectedCell[1]
           col == selectedCell[2]
           saved == saveToHistory(EditState, gBoard, pencilMarks)
       IN IF initialBoardState[row][col] THEN EditState
          ELSE IF isPencilMode
          THEN [saved EXCEPT
                  !.pencilMarks = SetCell(pencilMarks, row, col,
                                          toggleMark(pencilMarks[row][col], num))]
          ELSE [saved EXCEPT
                  !.board = SetCell(gBoard, row, col,
                                    IF gBoard[row][col] = num THEN null ELSE num),
                  !.pencilMarks = SetCell(pencilMarks, row, col, <<>>),
                  !.score = IF answer = "none" THEN score ELSE score + points(answer),
                  !.achievements = IF answer = "none" THEN achievements
                                   ELSE achievements \cup masterOf(answer)]

\* the keys pressed: e.key with e.ctrlKey || e.metaKey and e.shiftKey
Key(k, ctrl, shift) == [key |-> k, ctrl |-> ctrl, shift |-> shift]

\* parseInt(e.key) of a key matching /^[1-9]$/
parseInt == ("1" :> 1) @@ ("2" :> 2) @@ ("3" :> 3) @@ ("4" :> 4) @@ ("5" :> 5)
            @@ ("6" :> 6) @@ ("7" :> 7) @@ ("8" :> 8) @@ ("9" :> 9)

\* lines 453-524
handleKeyDown(e) ==
  IF e.key \in DOMAIN parseInt /\ selectedCell # <<>>
  THEN LET row == selectedCell[1]
           col == selectedCell[2]
           num == parseInt[e.key]
       IN IF isPencilMode
          THEN [EditState EXCEPT
                  !.pencilMarks = SetCell(pencilMarks, row, col,
                                          toggleMark(pencilMarks[row][col], num))]
          ELSE [EditState EXCEPT
                  !.board = SetCell(gBoard, row, col, num),
                  !.pencilMarks = SetCell(pencilMarks, row, col, <<>>)]
  ELSE IF e.key \in {"Backspace", "Delete"} /\ selectedCell # <<>>
  THEN handleClearCell
  ELSE IF selectedCell # <<>>
          /\ e.key \in {"ArrowUp", "ArrowDown", "ArrowLeft", "ArrowRight"}
  THEN LET row == selectedCell[1]
           col == selectedCell[2]
       IN [EditState EXCEPT !.selectedCell =
             IF e.key = "ArrowUp" /\ row > 0 THEN <<row - 1, col>>
             ELSE IF e.key = "ArrowDown" /\ row < 8 THEN <<row + 1, col>>
             ELSE IF e.key = "ArrowLeft" /\ col > 0 THEN <<row, col - 1>>
             ELSE IF e.key = "ArrowRight" /\ col < 8 THEN <<row, col + 1>>
             ELSE selectedCell]
  ELSE IF e.ctrl /\ e.key \in {"z", "y"}
  THEN IF e.key = "z" /\ ~e.shift THEN undo
       ELSE IF e.key = "y" \/ (e.key = "z" /\ e.shift) THEN redo
       ELSE EditState
  ELSE IF e.key \in {"p", "P"}
  THEN [EditState EXCEPT !.isPencilMode = ~isPencilMode]
  ELSE EditState

\* the state set by a handler, and the operation logged
Edited(st, op) ==
  /\ nOps' = nOps + 1
  /\ lastOp' = op
  /\ gBoard' = st.board
  /\ pencilMarks' = st.pencilMarks
  /\ isPencilMode' = st.isPencilMode
  /\ selectedCell' = st.selectedCell
  /\ history' = st.history
  /\ historyIndex' = st.historyIndex
  /\ future' = st.future
  /\ score' = st.score
  /\ achievements' = st.achievements
  /\ UNCHANGED <<initialBoardState, conflictCells, hintsUsed, timers, checks>>
  /\ UNCHANGED stepVars
  /\ UNCHANGED demoVars

\* the cells clicked, the digits of the number pad used and the keys pressed
ClickCells == {<<0, 2>>, <<0, 1>>, <<1, 1>>}

PadDigits == {4, 3}

Keys ==
  {Key(k, FALSE, FALSE) : k \in {"4", "3", "Backspace", "ArrowUp", "ArrowDown",
                                 "ArrowLeft", "ArrowRight", "p"}}
    \cup {Key("z", TRUE, FALSE), Key("z", TRUE, TRUE), Key("y", TRUE, FALSE)}

\* lines 586-590: a given cell is not selected by a click
HandleCellClick(row, col) ==
  /\ nOps < MaxOps
  /\ Edited(IF initialBoardState[row][col] THEN EditState
            ELSE [EditState EXCEPT !.selectedCell = <<row, col>>],
            "cellClick")

\* a button of the number pad, disabled in step mode
HandleNumberClick(num) ==
  /\ nOps < MaxOps
  /\ ~isStepMode
  /\ \E answer \in (IF selectedCell = <<>> \/ isPencilMode THEN {"none"}
                    ELSE HintAnswers(selectedCell[1], selectedCell[2])) :
       Edited(handleNumberClick(num, answer), "numberClick")

\* the Clear button, disabled in step mode
HandleClearCell ==
  /\ nOps < MaxOps
  /\ ~isStepMode
  /\ Edited(handleClearCell, "clear")

\* a key pressed anywhere in the window
HandleKeyDown(e) ==
  /\ nOps < MaxOps
  /\ Edited(handleKeyDown(e),
            IF e.ctrl /\ e.key = "z" /\ ~e.shift THEN "undo"
            ELSE IF e.ctrl /\ e.key \in {"z", "y"} THEN "redo"
            ELSE "key")

editIdle ==
  /\ pencilMarks = noMarks
  /\ isPencilMode = FALSE
  /\ initialBoardState = initialCells(generatedPuzzle)
  /\ selectedCell = <<>>
  /\ history = <<>>
  /\ historyIndex = -1
  /\ future = <<>>
  /\ score = 0
  /\ lastOp = "none"
  /\ nOps = 0
  /\ solutionSteps = <<>>
  /\ currentStepIndex = -1
  /\ isStepMode = FALSE
  /\ stepEntryBoard = <<>>

----------------------------------------------------------------------------
(* Game board: step mode.  The library calls generateSudoku('easy') and    *)
(* solve(board) are taken by what they promise: a puzzle with one          *)
(* solution, and the steps that fill the empty cells of a board with the   *)
(* values of its solution (row by row here), or no solution.               *)

swapDigits(b) ==
  [r \in Idx |-> [c \in Idx |-> IF b[r][c] = 1 THEN 2
                                ELSE IF b[r][c] = 2 THEN 1 ELSE b[r][c]]]

\* what generateSudoku('easy') may return
GeneratedPuzzles == {generatedPuzzle, swapDigits(generatedPuzzle)}

KnownSolutions == {solvedGrid, swapDigits(solvedGrid)}

\* the steps that fill the empty cells of b from index k on with the values
\* of sol
RECURSIVE fillFrom(_, _, _)
fillFrom(b, sol, k) ==
  IF k > 80 THEN <<>>
  ELSE IF b[k \div 9][k % 9] = null
  THEN << [strategy |-> "naked-single",
           updates |-> << [index |-> k, filledValue |-> sol[k \div 9][k % 9]] >>] >>
         \o fillFrom(b, sol, k + 1)
  ELSE fillFrom(b, sol, k + 1)

\* solve(to1D(board)) of a board that has the givens of a generated puzzle
solve(b) ==
  LET fits == {sol \in KnownSolutions :
                 \A r \in Idx : \A c \in Idx : b[r][c] # null => b[r][c] = sol[r][c]}
  IN IF fits = {} THEN [solved |-> FALSE, steps |-> <<>>]
     ELSE [solved |-> TRUE, steps |-> fillFrom(b, CHOOSE sol \in fits : TRUE, 0)]

\* lines 849-868: solution.steps.map(...), where currentBoard is the board
\* of the step before
RECURSIVE mapSteps(_, _)
mapSteps(currentBoard, steps) ==
  IF steps = <<>> THEN <<>>
  ELSE LET update == Head(steps).updates[1]
           row == update.index \div 9
           col == update.index % 9
           newBoard == SetCell(currentBoard, row, col, update.filledValue)
       IN << [board |-> newBoard,
              cell |-> <<row, col>>,
              value |-> update.filledValue,
              strategy |-> Head(steps).strategy] >>
            \o mapSteps(newBoard, Tail(steps))

\* lines 845-872
generateSolutionSteps ==
  LET solution == solve(gBoard)
  IN IF solution.solved THEN mapSteps(gBoard, solution.steps) ELSE <<>>

\* what a step-mode handler leaves alone
stepFrame ==
  /\ UNCHANGED <<achievements, timers, checks, isPencilMode>>
  /\ UNCHANGED demoVars

\* resetBoard (lines 545-567) with newBoard the puzzle generated
resetBoard(newBoard) ==
  /\ gBoard' = newBoard
  /\ pencilMarks' = noMarks
  /\ initialBoardState' = initialCells(newBoard)
  /\ conflictCells' = {}
  /\ selectedCell' = <<>>
  /\ hintsUsed' = 0
  /\ score' = 0
  /\ solutionSteps' = <<>>
  /\ currentStepIndex' = -1
  /\ isStepMode' = FALSE
  /\ history' = <<>>
  /\ future' = <<>>
  /\ historyIndex' = -1
  /\ stepEntryBoard' = <<>>

\* lines 897-917 and the effect of lines 357-363, which shows the board of
\* the current step; the button is there outside step mode only
HandleShowMeHow ==
  /\ nOps < MaxOps
  /\ ~isStepMode
  /\ nOps' = nOps + 1
  /\ lastOp' = "showMeHow"
  /\ LET steps == generateSolutionSteps
     IN IF Len(steps) = 0
        THEN UNCHANGED <<gBoard, score, stepVars>>
        ELSE /\ solutionSteps' = steps
             /\ currentStepIndex' = 0
             /\ isStepMode' = TRUE
             /\ score' = score + 25
             /\ gBoard' = steps[1].board
             /\ stepEntryBoard' = gBoard
  /\ UNCHANGED <<pencilMarks, initialBoardState, selectedCell, history,
                 historyIndex, future, conflictCells, hintsUsed>>
  /\ stepFrame

\* lines 920-924, 357-363
HandlePreviousStep ==
  /\ nOps < MaxOps
  /\ isStepMode
  /\ currentStepIndex > 0
  /\ nOps' = nOps + 1
  /\ lastOp' = "previousStep"
  /\ currentStepIndex' = currentStepIndex - 1
  /\ gBoard' = solutionSteps[currentStepIndex].board
  /\ UNCHANGED <<solutionSteps, isStepMode, stepEntryBoard, score>>
  /\ UNCHANGED <<pencilMarks, initialBoardState, selectedCell, history,
                 historyIndex, future, conflictCells, hintsUsed>>
  /\ stepFrame

\* lines 927-931, 357-363
HandleNextStep ==
  /\ nOps < MaxOps
  /\ isStepMode
  /\ currentStepIndex < Len(solutionSteps) - 1
  /\ nOps' = nOps + 1
  /\ lastOp' = "nextStep"
  /\ currentStepIndex' = currentStepIndex + 1
  /\ gBoard' = solutionSteps[currentStepIndex + 2].board
  /\ UNCHANGED <<solutionSteps, isStepMode, stepEntryBoard, score>>
  /\ UNCHANGED <<pencilMarks, initialBoardState, selectedCell, history,
                 historyIndex, future, conflictCells, hintsUsed>>
  /\ stepFrame

\* lines 934-940: the three setters, then resetBoard()
HandleExitStepMode ==
  /\ nOps < MaxOps
  /\ isStepMode
  /\ nOps' = nOps + 1
  /\ lastOp' = "exitStepMode"
  /\ \E newBoard \in GeneratedPuzzles : resetBoard(newBoard)
  /\ stepFrame

\* the New Puzzle button (lines 1097-1103), disabled in step mode
HandleNewPuzzle ==
  /\ nOps < MaxOps
  /\ ~isStepMode
  /\ nOps' = nOps + 1
  /\ lastOp' = "newPuzzle"
  /\ \E newBoard \in GeneratedPuzzles : resetBoard(newBoard)
  /\ stepFrame

\* the game with the mouse: cells, number pad, Clear, and the step mode
StepNext ==
  \/ \E p \in ClickCells : HandleCellClick(p[1], p[2])
  \/ \E num \in PadDigits : HandleNumberClick(num)
  \/ HandleClearCell
  \/ HandleShowMeHow
  \/ HandlePreviousStep
  \/ HandleNextStep
  \/ HandleExitStepMode
  \/ HandleNewPuzzle

----------------------------------------------------------------------------
(* Demo board: editing.  The cells are clicked at any time; the number pad, *)
(* Clear and New Puzzle are disabled while a run is going on.               *)

\* resetBoard (lines 55-76): the givens of the example puzzle
demoInitialBoardState == initialCells(exampleBoard)

\* the cells clicked and the digits of the number pad used
DemoClickCells == {<<0, 1>>, <<0, 2>>, <<0, 3>>, <<1, 1>>}

DemoPadDigits == {4, 1}

demoEditFrame ==
  UNCHANGED <<isSolving, boardCopy, stack, result, startBoard, trace, snaps,
              nSteps, nEmit, runs, uiBoard, refused, gameVars>>

\* lines 84-96: newBoard = [...board] has the row arrays of board, the cell
\* is written into the row array the board state holds
demoHandleNumberClick(num) ==
  IF demoSelectedCell = <<>> THEN heap
  ELSE LET row == demoSelectedCell[1]
           col == demoSelectedCell[2]
           old == heap[board[row]]
       IN IF demoInitialBoardState[row][col] THEN heap
          ELSE Store(heap, board[row],
                     [old EXCEPT ![col] = IF old[col] = num THEN null ELSE num])

\* lines 78-82: a given cell is not selected
DemoHandleCellClick(row, col) ==
  /\ ~demoInitialBoardState[row][col]
  /\ demoSelectedCell' = <<row, col>>
  /\ UNCHANGED <<heap, board>>
  /\ demoEditFrame

\* lines 78-80: the click on a given cell returns at once
DemoHandleGivenClick(row, col) ==
  /\ demoInitialBoardState[row][col]
  /\ UNCHANGED <<heap, board, demoSelectedCell>>
  /\ demoEditFrame

\* a button of the number pad (lines 235-244)
DemoHandleNumberClick(num) ==
  /\ ~isSolving
  /\ heap' = demoHandleNumberClick(num)
  /\ UNCHANGED <<board, demoSelectedCell>>
  /\ demoEditFrame

\* the Clear button (lines 245-251): selectedCell && handleNumberClick(0)
DemoHandleClear ==
  /\ ~isSolving
  /\ heap' = IF demoSelectedCell # <<>> THEN demoHandleNumberClick(0) ELSE heap
  /\ UNCHANGED <<board, demoSelectedCell>>
  /\ demoEditFrame

\* the New Puzzle button (lines 203-208): resetBoard makes a new example
\* board; the selection stays
GenerateNewPuzzle ==
  /\ ~isSolving
  /\ LET ref == [r \in Idx |-> NewAddr(heap, r)]
         h1 == [x \in DOMAIN heap \cup RowsOf(ref) |->
                  IF x \in DOMAIN heap THEN heap[x]
                  ELSE exampleBoard[CHOOSE q \in Idx : ref[q] = x]]
     IN /\ board' = ref
        /\ heap' = Collect(h1, RowsOf(ref))
  /\ UNCHANGED demoSelectedCell
  /\ demoEditFrame

demoIdle ==
  /\ heap = [a \in 1..9 |-> solvedGrid[a - 1]]
  /\ board = [r \in Idx |-> r + 1]
  /\ isSolving = FALSE
  /\ boardCopy = <<>>
  /\ stack = <<>>
  /\ result = "none"
  /\ startBoard = <<>>
  /\ trace = <<>>
  /\ snaps = <<>>
  /\ nSteps = 0
  /\ nEmit = 0
  /\ runs = 0
  /\ uiBoard = <<>>
  /\ refused = FALSE
  /\ demoSelectedCell = <<>>

\* the game after a puzzle was generated and the user has filled cells, with
\* or without having asked for a hint
GameInit ==
  /\ gBoard \in GameBoards
  /\ conflictCells = {}
  /\ achievements = {}
  /\ hintsUsed \in {0, 1}
  /\ timers = 0
  /\ checks = <<>>
  /\ editIdle
  /\ demoIdle

GameNext == (\E fast \in BOOLEAN : HandleCheckSolution(fast)) \/ ConflictTimeout

GameSpec == GameInit /\ [][GameNext]_vars

\* the game after resetBoard: a new puzzle, nothing entered yet
EditInit ==
  /\ gBoard = generatedPuzzle
  /\ conflictCells = {}
  /\ achievements = {}
  /\ hintsUsed = 0
  /\ timers = 0
  /\ checks = <<>>
  /\ editIdle
  /\ demoIdle

EditNext ==
  \/ \E p \in ClickCells : HandleCellClick(p[1], p[2])
  \/ \E num \in PadDigits : HandleNumberClick(num)
  \/ HandleClearCell
  \/ \E e \in Keys : HandleKeyDown(e)

EditSpec == EditInit /\ [][EditNext]_vars

StepSpec == EditInit /\ [][StepNext]_vars

gameIdle ==
  /\ gBoard = solvedGrid
  /\ conflictCells = {}
  /\ achievements = {}
  /\ hintsUsed = 0
  /\ timers = 0
  /\ checks = <<>>
  /\ editIdle

Init ==
  /\ \E b \in StartBoards :
       /\ heap = [a \in 1..9 |-> b[a - 1]]
       /\ board = [r \in Idx |-> r + 1]
  /\ isSolving = FALSE
  /\ boardCopy = <<>>
  /\ stack = <<>>
  /\ result = "none"
  /\ startBoard = <<>>
  /\ trace = <<>>
  /\ snaps = <<>>
  /\ nSteps = 0
  /\ nEmit = 0
  /\ runs = 0
  /\ uiBoard = <<>>
  /\ refused = FALSE
  /\ demoSelectedCell = <<>>
  /\ gameIdle

Next == HandleSolveClick \/ ResumePlaced \/ ResumeRemoved \/ SolveRequestWhileSolving

Spec == Init /\ [][Next]_vars

\* the demo after resetBoard, and the user's clicks before any run
DemoInit ==
  /\ heap = [a \in 1..9 |-> exampleBoard[a - 1]]
  /\ board = [r \in Idx |-> r + 1]
  /\ isSolving = FALSE
  /\ boardCopy = <<>>
  /\ stack = <<>>
  /\ result = "none"
  /\ startBoard = <<>>
  /\ trace = <<>>
  /\ snaps = <<>>
  /\ nSteps = 0
  /\ nEmit = 0
  /\ runs = 0
  /\ uiBoard = <<>>
  /\ refused = FALSE
  /\ demoSelectedCell = <<>>
  /\ gameIdle

DemoNext ==
  \/ \E p \in DemoClickCells : DemoHandleCellClick(p[1], p[2])
  \/ \E p \in DemoClickCells : DemoHandleGivenClick(p[1], p[2])
  \/ \E num \in DemoPadDigits : DemoHandleNumberClick(num)
  \/ DemoHandleClear
  \/ GenerateNewPuzzle

DemoSpec == DemoInit /\ [][DemoNext]_vars

----------------------------------------------------------------------------
(* Vocabulary of the properties, stated without the code's scans *)

sameBox(p, q) == (p[1] \div 3 = q[1] \div 3) /\ (p[2] \div 3 = q[2] \div 3)

\* the other cells of the row, the column and the box of p
Peers == [p \in Pos |-> {q \in Pos : q # p /\ (q[1] = p[1] \/ q[2] = p[2] \/ sameBox(p, q))}]

At(b, p) == b[p[1]][p[2]]

\* no digit occurs twice in a row, a column or a box
NoDuplicate(b) ==
  \A p \in Pos : At(b, p) \in Digits => \A q \in Peers[p] : At(b, q) # At(b, p)

\* every row, column and box is a permutation of 1..9
AllPermutations(b) ==
  /\ \A r \in Idx : {b[r][c] : c \in Idx} = Digits
  /\ \A c \in Idx : {b[r][c] : r \in Idx} = Digits
  /\ \A br \in 0..2 : \A bc \in 0..2 : {At(b, p) : p \in boxCells(br, bc)} = Digits

\* the cells that hold no digit (null, or the 0 the Clear button leaves)
Holes(b) == {p \in Pos : At(b, p) \notin Digits}

Cands(b, p) == {v \in Digits : \A q \in Peers[p] : At(b, q) # v}

\* the valid completions of b: the grids that fill every hole of b and keep
\* its digits, every row, column and box a permutation of 1..9
RECURSIVE Completions(_)
Completions(b) ==
  IF Holes(b) = {} THEN (IF AllPermutations(b) THEN {b} ELSE {})
  ELSE LET n == [p \in Holes(b) |-> Cardinality(Cands(b, p))]
           h == CHOOSE p \in Holes(b) : \A q \in Holes(b) : n[p] <= n[q]
       IN UNION {Completions(SetCell(b, h[1], h[2], v)) : v \in Cands(b, h)}

shown == Deref(heap, board)

\* the guard of Resume: a suspended activation waits for its timer
ResumeEnabled == stack # <<>> /\ stack[Len(stack)].pc \in {"placed", "removed"}

----------------------------------------------------------------------------
(* C1: for a starting board without a duplicate among its filled cells,    *)
(* solveSudoku returns true if and only if the board has a valid           *)
(* completion.                                                             *)
C1_SolveDecides ==
  (result # "none" /\ NoDuplicate(startBoard))
    => ((result = "true") <=> (Completions(startBoard) # {}))

\* The run ends: while it is suspended its timer can fire, every firing adds
\* one placement or removal or ends the run, and no state is met twice
\* (nSteps grows), so the finitely many states of a run are left for good.
\* A Solve request refused meanwhile is no step of the run.
RunProgress ==
  /\ [](isSolving => ResumeEnabled)
  /\ [][isSolving /\ refused' = refused => (~isSolving' \/ nSteps' = nSteps + 1)]_vars

\* On the boards an honest entry leaves (null or a digit in every cell, no
\* duplicate) the answer is the right one.
SolveDecidesWithoutZero ==
  (result # "none" /\ NoDuplicate(startBoard) /\ \A p \in Pos : At(startBoard, p) # 0)
    => ((result = "true") <=> (Completions(startBoard) # {}))

----------------------------------------------------------------------------
(* C2: whenever solveSudoku reports success, the checker run on the board  *)
(* the run leaves on display answers isValid = true with no conflict.      *)
C2_SuccessPassesCheck ==
  result = "true" => checkSolution(shown) = [isValid |-> TRUE, conflicts |-> {}]

SuccessPassesCheckWithoutZero ==
  (result = "true" /\ NoDuplicate(startBoard) /\ \A p \in Pos : At(startBoard, p) # 0)
    => /\ checkSolution(shown) = [isValid |-> TRUE, conflicts |-> {}]
       /\ AllPermutations(shown)

----------------------------------------------------------------------------
(* C3: started on the example board of resetBoard, the run ends with true, *)
(* the board on display is then the puzzle's only valid completion, and    *)
(* every cell filled at the start is unchanged.  The run ends: it takes    *)
(* 8365 placements and removals, each timer firing adds one or ends the    *)
(* run, and a suspended run always has its timer to fire (a Solve request  *)
(* made meanwhile is refused and is no step of the run).                   *)
C3_ExampleSolved ==
  /\ [](startBoard = exampleBoard =>
          /\ nSteps <= 8365
          /\ isSolving => ResumeEnabled
          /\ ~isSolving =>
               /\ result = "true"
               /\ Completions(exampleBoard) = {shown}
               /\ \A p \in Pos : At(exampleBoard, p) # null => At(shown, p) = At(exampleBoard, p))
  /\ [][startBoard' = exampleBoard /\ isSolving /\ refused' = refused
          => (~isSolving' \/ nSteps' = nSteps + 1)]_vars

C3_Witness ==
  /\ startBoard = exampleBoard
  /\ result = "true"
  /\ shown = solvedGrid
  /\ nSteps = 8365


----------------------------------------------------------------------------
(* The validator is looked at on every board the component shows while no  *)
(* run is suspended (the starting boards and the boards the runs leave).   *)

CellValues == {null} \cup (0..9)

\* v occurs in a cell other than p of p's row, column or box
Elsewhere(b, p, v) == \E q \in Peers[p] : At(b, q) = v

\* the positions asked about: the cells of Pool and a cell or two of every box
ProbeCells ==
  {<<Pool[i].row, Pool[i].col>> : i \in DOMAIN Pool}
    \cup {<<0, 0>>, <<1, 4>>, <<2, 7>>, <<3, 6>>, <<4, 4>>, <<5, 1>>, <<7, 3>>, <<8, 8>>}

RejectsAndAccepts(b) ==
  \A p \in ProbeCells : \A v \in Digits :
    /\ Elsewhere(b, p, v) => ~isValid(b, p[1], p[2], v)
    /\ (~Elsewhere(b, p, v) /\ At(b, p) # v) => isValid(b, p[1], p[2], v)

(* C4: isValid(board, r, c, v) is false whenever v occurs in another cell  *)
(* of row r, column c or the box of (r, c), and true when v occurs in no   *)
(* cell of that row, column and box.                                       *)
C4_ValidatorRejectsAndAccepts == ~isSolving => RejectsAndAccepts(shown)

BoxOnlyRejected(b) ==
  \E p \in ProbeCells : \E v \in Digits :
    /\ At(b, p) = null
    /\ \A q \in Peers[p] : At(b, q) = v => (q[1] # p[1] /\ q[2] # p[2])
    /\ Elsewhere(b, p, v)
    /\ ~isValid(b, p[1], p[2], v)
    /\ \E w \in Digits : ~Elsewhere(b, p, w) /\ isValid(b, p[1], p[2], w)

\* a value that occurs in the box only is rejected, another one is accepted
C4_Witness == ~isSolving /\ BoxOnlyRejected(shown)

----------------------------------------------------------------------------

\* the cells whose own content is varied
OwnCells == {<<0, 0>>, <<0, 2>>, <<4, 4>>, <<6, 2>>, <<8, 1>>}

OwnCellIgnored(b) ==
  \A p \in OwnCells : \A v \in Digits : \A x \in CellValues :
    isValid(SetCell(b, p[1], p[2], x), p[1], p[2], v) = isValid(b, p[1], p[2], v)

(* C5, as claimed: the result of isValid(board, r, c, v) is the same       *)
(* whatever the cell (r, c) holds.                                         *)
C5_OwnCellIgnored == ~isSolving => OwnCellIgnored(shown)

OwnCellCounts(b) ==
  /\ \A p \in Pos : At(b, p) \in Digits => ~isValid(b, p[1], p[2], At(b, p))
  /\ \A p \in OwnCells : \A v \in Digits : \A x \in CellValues \ {v} :
       isValid(SetCell(b, p[1], p[2], x), p[1], p[2], v) = ~Elsewhere(b, p, v)

(* C5, amended: isValid(board, r, c, v) is false when the cell (r, c)      *)
(* itself holds v; whatever else the cell holds makes no difference, the   *)
(* result is then true exactly when v is in no other cell of the row, the  *)
(* column and the box.                                                     *)
C5_OwnCellCounts == ~isSolving => OwnCellCounts(shown)

OwnCellRejected(b) ==
  /\ At(b, <<0, 0>>) = 5
  /\ ~Elsewhere(b, <<0, 0>>, 5)
  /\ ~isValid(b, 0, 0, 5)
  /\ isValid(SetCell(b, 0, 0, null), 0, 0, 5)

\* a cell holds v, v is nowhere else in its row, column and box, and isValid
\* says false
C5_Witness == ~isSolving /\ OwnCellRejected(shown)

----------------------------------------------------------------------------
(* The checker, on the game boards.  The board does not change in          *)
(* GameSpec, so every recorded result is a result for gBoard.              *)

\* the positions holding a digit that another cell of the same row, column
\* or box holds too
Duplicated(b) == {p \in Pos : At(b, p) \in Digits /\ \E q \in Peers[p] : At(b, q) = At(b, p)}

(* C6: checkSolution returns isValid = true if and only if the board has   *)
(* no empty cell and the returned conflict set is empty; a board whose     *)
(* rows, columns and boxes are permutations of 1..9 gives isValid = true   *)
(* and no conflict.                                                        *)
C6_ValidIffCompleteAndConflictFree ==
  \A i \in DOMAIN checks :
    /\ checks[i].isValid <=> (EmptyCells(gBoard) = {} /\ checks[i].conflicts = {})
    /\ AllPermutations(gBoard) => checks[i] = [isValid |-> TRUE, conflicts |-> {}]

\* the reference grid was checked and found valid
C6_Witness ==
  /\ checks # <<>>
  /\ gBoard = solvedGrid
  /\ checks[1] = [isValid |-> TRUE, conflicts |-> {}]

----------------------------------------------------------------------------
(* C7: the conflict set returned by checkSolution, on a complete or a      *)
(* partially filled board, is exactly the set of positions holding a value *)
(* that also occurs at another position of the same row, column or box.    *)
C7_ConflictsAreTheDuplicates ==
  \A i \in DOMAIN checks : checks[i].conflicts = Duplicated(gBoard)

\* 5 at (0,0) and at (0,3), on a board with an empty cell: in row 0 exactly
\* these two positions are reported
C7_Witness ==
  /\ checks # <<>>
  /\ gBoard[0][0] = 5 /\ gBoard[0][3] = 5
  /\ EmptyCells(gBoard) # {}
  /\ {p \in checks[1].conflicts : p[1] = 0} = {<<0, 0>>, <<0, 3>>}

----------------------------------------------------------------------------
(* C8: checkSolution leaves the board unchanged, and a second check of the *)
(* board gives the same isValid and the same conflict set as the first.    *)
C8_CheckReadsOnly ==
  [][Len(checks') > Len(checks) =>
       /\ gBoard' = gBoard
       /\ checks # <<>> => checks'[Len(checks')] = checks[Len(checks)]]_vars

\* two checks were made of a board with conflicts
C8_Witness ==
  /\ Len(checks) >= 2
  /\ checks[1].conflicts # {}
  /\ checks[2] = checks[1]

----------------------------------------------------------------------------
\* the board handed to solveSudoku by handleSolveClick, as it is now
argument == Deref(heap, boardCopy)

(* C9, as claimed: when solveSudoku(board) returns true, that same board   *)
(* argument holds the completed grid, no cell of it is empty.              *)
C9_ArgumentCompleted ==
  result = "true" => EmptyCells(argument) = {}

\* the board the i-th suspended activation was called with
CalledWith(i) == IF i = 1 THEN boardCopy ELSE stack[i - 1].newBoard

\* the activation f left its board alone: its newBoard shares every row with
\* the board but the row of its cell, which is a row array of its own that
\* differs from the board's row in that cell only
WorksOnCopy(f) ==
  /\ \A r \in Idx \ {f.row} : f.newBoard[r] = f.board[r]
  /\ f.newBoard[f.row] \notin {f.board[r] : r \in Idx}
  /\ heap[f.board[f.row]][f.col] = null
  /\ heap[f.newBoard[f.row]] =
       [heap[f.board[f.row]] EXCEPT ![f.col] = IF f.pc = "placed" THEN f.num ELSE null]

(* C9, amended: solveSudoku never writes to the board it is given, it      *)
(* places each number in a copy (newBoard) and recurses on the copy.  The  *)
(* board argument of every call keeps the contents it was called with: the *)
(* placements of the path are in the copies, and when the run returns true *)
(* the grid without a null cell is the last snapshot passed to setBoard    *)
(* (the board argument only when it had no null cell from the start).      *)
C9_ArgumentUntouched ==
  boardCopy # <<>> =>
    /\ argument = startBoard
    /\ \A i \in DOMAIN stack : stack[i].board = CalledWith(i) /\ WorksOnCopy(stack[i])
    /\ result = "true" =>
         /\ EmptyCells(shown) = {}
         /\ \A p \in Pos : At(startBoard, p) # null => At(shown, p) = At(startBoard, p)
         /\ nEmit = 0 => shown = startBoard

\* a run that placed numbers has returned true: the board on display is
\* full, the argument still has its empty cells
C9_Witness ==
  /\ result = "true"
  /\ nSteps > 0
  /\ EmptyCells(shown) = {}
  /\ EmptyCells(argument) # {}
  /\ argument = startBoard

----------------------------------------------------------------------------
\* the board after the placement or removal e
ApplyEv(b, e) ==
  SetCell(b, e.row, e.col, IF e.op = "place" THEN e.num ELSE null)

(* C10: during a run exactly one snapshot is passed to setBoard for every  *)
(* placement and for every removal, in their order: each snapshot is the   *)
(* previous one (the first: the starting board) changed by the step it     *)
(* belongs to, a placement into a null cell or the removal of the number   *)
(* placed there, and the board on display is the latest snapshot.          *)
C10_OneSnapshotPerStep ==
  /\ nEmit = nSteps
  /\ Len(snaps) = Len(trace)
  /\ \A i \in DOMAIN snaps :
       /\ i > 1 => snaps[i].val = ApplyEv(snaps[i - 1].val, trace[i])
       /\ (i = 1 /\ nEmit <= MaxLog) => snaps[i].val = ApplyEv(startBoard, trace[i])
       /\ i > 1 => At(snaps[i - 1].val, <<trace[i].row, trace[i].col>>)
                     = (IF trace[i].op = "place" THEN null ELSE trace[i].num)
  /\ snaps # <<>> => (board = snaps[Len(snaps)].ref /\ shown = snaps[Len(snaps)].val)

\* placements and removals have happened, the log window has slid
C10_Witness ==
  /\ nEmit > MaxLog
  /\ \E i \in DOMAIN trace : trace[i].op = "remove"
  /\ \E i \in DOMAIN trace : trace[i].op = "place"

----------------------------------------------------------------------------
\* the board state handleSolveClick read, as it is now
clicked == Deref(heap, uiBoard)

\* the row arrays the search works on: those of its suspended activations
SearchRows ==
  UNION {RowsOf(stack[i].board) \cup RowsOf(stack[i].newBoard) : i \in DOMAIN stack}

(* C11: the solver works on a private copy.  The board object that was the *)
(* UI state when handleSolveClick started keeps its contents, the search   *)
(* and its snapshots share no row array with it, and the board on display  *)
(* changes only in a step that hands a snapshot to setBoard: the snapshot  *)
(* of one placement or one removal, which is then the board on display.    *)
C11_PrivateCopy ==
  /\ [](uiBoard # <<>> =>
          /\ clicked = startBoard
          /\ RowsOf(uiBoard) \cap (RowsOf(boardCopy) \cup SearchRows) = {}
          /\ \A i \in DOMAIN snaps : RowsOf(snaps[i].ref) \cap RowsOf(uiBoard) = {})
  /\ [][shown' # shown =>
          /\ nEmit' = (IF isSolving THEN nEmit ELSE 0) + 1
          /\ nSteps' = (IF isSolving THEN nSteps ELSE 0) + 1
          /\ board' = snaps'[Len(snaps')].ref
          /\ shown' = ApplyEv(shown, trace'[Len(trace')])]_vars

\* a run has placed and removed numbers and is suspended: the board on
\* display has changed, the board object of the click has not
C11_Witness ==
  /\ isSolving
  /\ \E i \in DOMAIN trace : trace[i].op = "remove"
  /\ shown # startBoard
  /\ clicked = startBoard
  /\ board # uiBoard

----------------------------------------------------------------------------
(* C12: at most one solver run is active at any time.  isSolving is true   *)
(* exactly while the one run is suspended; a Solve request made meanwhile  *)
(* is refused, it starts no run and changes nothing of the run in          *)
(* progress; a run starts only while isSolving is false; and when the run  *)
(* ends, with true or with false, isSolving is false again.                *)
C12_OneRunAtATime ==
  /\ [](/\ isSolving <=> stack # <<>>
        /\ isSolving => (result = "none" /\ ResumeEnabled)
        /\ (~isSolving /\ runs > 0) => result \in {"true", "false"}
        /\ refused => runs > 0)
  /\ [][isSolving =>
          /\ UNCHANGED <<runs, startBoard, boardCopy, uiBoard>>
          /\ refused' # refused =>
               UNCHANGED <<heap, board, isSolving, stack, result, trace, snaps, nSteps, nEmit>>]_vars
  /\ [][runs' # runs => (~isSolving /\ runs' = runs + 1 /\ ~refused')]_vars

\* a Solve request was refused during a run that went on placing numbers
\* and has ended since: isSolving is false again
C12_Witness ==
  /\ refused
  /\ ~isSolving
  /\ result = "true"
  /\ nSteps > 1
  /\ runs = 1

----------------------------------------------------------------------------
\* an entry of the number pad or a Clear that changed the board or the marks
PadOrClearChanged ==
  /\ nOps' = nOps + 1
  /\ lastOp' \in {"numberClick", "clear"}
  /\ (gBoard' # gBoard \/ pencilMarks' # pencilMarks)

(* C13: in the game, after an entry of the number pad or a Clear that      *)
(* changes the board or the pencil marks, the state before the change is   *)
(* the entry of history that Undo restores (historyIndex points at it, so  *)
(* Undo is enabled), and Undo sets the board and the pencil marks to that  *)
(* entry.                                                                  *)
C13_ChangeSavedForUndo ==
  /\ [][PadOrClearChanged =>
          /\ historyIndex' >= 0
          /\ history'[historyIndex' + 1] = [board |-> gBoard, pencilMarks |-> pencilMarks]]_vars
  /\ [][(nOps' = nOps + 1 /\ lastOp' = "undo" /\ historyIndex >= 0) =>
          /\ gBoard' = history[historyIndex + 1].board
          /\ pencilMarks' = history[historyIndex + 1].pencilMarks]_vars

\* What the code does: saveToHistory is called with the current board and
\* pencil marks, finds nothing changed and returns, so nothing is ever saved
\* and neither undo nor redo has a state to restore.
HistoryNeverSaved ==
  /\ history = <<>>
  /\ historyIndex = -1
  /\ future = <<>>

----------------------------------------------------------------------------
(* C14: in the game, a given cell of the puzzle keeps its value under      *)
(* every sequence of cell clicks, arrow keys, number-pad clicks, number    *)
(* keys, Clear / Backspace / Delete, undo and redo.                        *)
C14_GivensKeep ==
  \A p \in Pos :
    initialBoardState[p[1]][p[2]] => At(gBoard, p) = At(generatedPuzzle, p)

\* The number pad and Clear do leave the givens alone: a given changes only
\* by a number key, pressed after the arrow keys moved the selection onto it.
GivensKeepButForKeys ==
  [][(\E p \in Pos : initialBoardState[p[1]][p[2]] /\ At(gBoard', p) # At(gBoard, p))
       => (lastOp' = "key" /\ selectedCell # <<>>
           /\ initialBoardState[selectedCell[1]][selectedCell[2]])]_vars

----------------------------------------------------------------------------
\* the rows, the columns and the boxes, as sets of positions
Units ==
  {{r} \X Idx : r \in Idx} \cup {Idx \X {c} : c \in Idx}
    \cup {boxCells(br, bc) : br \in 0..2, bc \in 0..2}

\* no digit occurs twice in a unit: its filled cells hold as many digits as
\* there are filled cells
ConflictFree(b) ==
  \A u \in Units :
    LET filled == {p \in u : b[p[1]][p[2]] \in Digits}
    IN Cardinality({b[p[1]][p[2]] : p \in filled}) = Cardinality(filled)

(* C15: when the starting board has no duplicate among its filled cells,   *)
(* every snapshot handed to setBoard during the search (each is at its     *)
(* time the latest one) has no value twice in a row, a column or a box.    *)
C15_SnapshotsConflictFree ==
  (snaps # <<>> /\ ConflictFree(startBoard)) => ConflictFree(snaps[Len(snaps)].val)

\* deep in a search from a board without duplicates, after a removal
C15_Witness ==
  /\ nEmit > 2 * MaxLog
  /\ NoDuplicate(startBoard)
  /\ trace[Len(trace)].op = "remove"
  /\ ConflictFree(snaps[Len(snaps)].val)

----------------------------------------------------------------------------
\* p holds null and no cell before it, row by row, does
IsFirstEmpty(b, p) ==
  /\ At(b, p) = null
  /\ \A q \in Pos : q[1] * 9 + q[2] < p[1] * 9 + p[2] => At(b, q) # null

\* v occurs nowhere in the row, the column and the box of the null cell p
Fits(b, p, v) ==
  /\ \A c \in Idx : b[p[1]][c] # v
  /\ \A r \in Idx : b[r][p[2]] # v
  /\ \A q \in boxCells(p[1] \div 3, p[2] \div 3) : At(b, q) # v

\* The latest step e, made on the board b that the step e0 before it left
\* (e0 = <<>> for the first step of the run, b the starting board then).
InOrder(b, e0, e) ==
  LET cell == <<e.row, e.col>>
      cell0 == <<e0[1].row, e0[1].col>>
  IN IF e.op = "place"
     THEN /\ IsFirstEmpty(b, cell)
          /\ Fits(b, cell, e.num)
          /\ IF e0 # <<>> /\ e0[1].op = "remove"
             \* the loop over num goes on after the number removed
             THEN /\ cell = cell0
                  /\ e.num > e0[1].num
                  /\ \A m \in (e0[1].num + 1)..(e.num - 1) : ~Fits(b, cell, m)
             \* a new call starts with 1
             ELSE \A m \in 1..(e.num - 1) : ~Fits(b, cell, m)
     ELSE /\ e0 # <<>>
          /\ IF e0[1].op = "place"
             \* the placement is removed when the call on it found a null
             \* cell that takes no number
             THEN /\ cell = cell0 /\ e.num = e0[1].num
                  /\ \E q \in Pos : IsFirstEmpty(b, q) /\ \A m \in Digits : ~Fits(b, q, m)
             \* or when the cell after it, row by row, has no number left
             ELSE /\ cell[1] * 9 + cell[2] < cell0[1] * 9 + cell0[2]
                  /\ IsFirstEmpty(b, cell0)
                  /\ \A m \in (e0[1].num + 1)..9 : ~Fits(b, cell0, m)

(* C16: every placement is made at the first empty (null) cell of the      *)
(* current board, row by row; at a cell the numbers are tried in ascending *)
(* order from 1 to 9, none that fits is skipped and a placement is removed *)
(* only when no number is left to try further on; and once success is      *)
(* reported no placement or removal follows: the step that reports it and  *)
(* the steps after it change neither the step count nor the board on       *)
(* display, which keeps every number placed on the path.                   *)
C16_SearchOrder ==
  /\ [](trace # <<>> =>
          LET n == Len(trace)
          IN InOrder(IF n > 1 THEN snaps[n - 1].val ELSE startBoard,
                     IF n > 1 THEN <<trace[n - 1]>> ELSE <<>>,
                     trace[n]))
  /\ [](result = "true" =>
          /\ stack = <<>> /\ ~isSolving
          /\ nSteps > 0 => (trace[Len(trace)].op = "place" /\ EmptyCells(shown) = {}))
  /\ [][(result' = "true" /\ runs' = runs) =>
          (nSteps' = nSteps /\ nEmit' = nEmit /\ shown' = shown)]_vars

\* after a removal the loop skipped a number that does not fit and placed
\* the next one that does
C16_Witness ==
  /\ Len(trace) > 1
  /\ trace[Len(trace) - 1].op = "remove"
  /\ trace[Len(trace)].op = "place"
  /\ trace[Len(trace)].num > trace[Len(trace) - 1].num + 1
  /\ trace[Len(trace)].row > 0

----------------------------------------------------------------------------
(* C17: an emitted snapshot is an independent copy of the board: whatever  *)
(* the search does after handing a snapshot to setBoard, the snapshot      *)
(* keeps the contents it had when it was handed over.                      *)
C17_SnapshotsKeep ==
  \A i \in DOMAIN snaps : Deref(heap, snaps[i].ref) = snaps[i].val

\* What the code does: setBoard([...newBoard]) copies the outer array only,
\* so a snapshot shares its row arrays with the newBoard of the activation
\* that made it.  The snapshot of a placement is changed by the removal of
\* that placement (line 176 writes null into the shared row); no other
\* write reaches it.
SnapshotsChangeByRemovalOnly ==
  \A i \in DOMAIN snaps :
    \A p \in Pos :
      At(Deref(heap, snaps[i].ref), p) # At(snaps[i].val, p) =>
        /\ At(Deref(heap, snaps[i].ref), p) = null
        /\ \E j \in DOMAIN trace :
             /\ j > i
             /\ trace[j] = [op |-> "remove", row |-> p[1], col |-> p[2],
                            num |-> At(snaps[i].val, p)]

----------------------------------------------------------------------------
(* C18: when a run ends in failure (solveSudoku returns false) the board   *)
(* is as it was before the run: the board passed to solveSudoku has the    *)
(* contents it was called with, and if a snapshot was emitted the last one *)
(* equals the starting board, which is then the board on display; without  *)
(* a snapshot the board on display is the one of the click.                *)
C18_FailureLeavesBoard ==
  result = "false" =>
    /\ ~isSolving
    /\ argument = startBoard
    /\ shown = startBoard
    /\ nEmit > 0 => snaps[Len(snaps)].val = startBoard
    /\ nEmit = 0 => board = uiBoard

\* a run that placed and removed numbers has returned false
C18_Witness ==
  /\ result = "false"
  /\ nEmit > 2
  /\ trace[Len(trace)].op = "remove"
  /\ snaps[Len(snaps)].val = startBoard
  /\ EmptyCells(startBoard) # {}

----------------------------------------------------------------------------
\* the counters of the run before a step: a Solve click starts them at 0
EmitBefore == IF runs' = runs THEN nEmit ELSE 0

StepsBefore == IF runs' = runs THEN nSteps ELSE 0

\* the innermost activation waits for the timer set after the step e; every
\* other activation waits for the call it made after its placement
SuspendedAfter(e) ==
  /\ stack # <<>>
  /\ LET f == stack[Len(stack)]
     IN /\ f.pc = (IF e.op = "place" THEN "placed" ELSE "removed")
        /\ f.row = e.row /\ f.col = e.col /\ f.num = e.num
  /\ \A i \in 1..(Len(stack) - 1) : stack[i].pc = "placed"

(* C19: after every placement and after every removal the search suspends *)
(* before its next step.  Between two suspensions (one step of the model)  *)
(* at most one placement or removal is made and at most one snapshot is    *)
(* emitted; a step that emits one leaves the run suspended right after it; *)
(* and a run is suspended nowhere else: whenever it is suspended, its      *)
(* innermost activation waits for the timer set after the latest           *)
(* placement or removal.                                                   *)
C19_SuspendsAfterEveryStep ==
  /\ [][/\ nEmit' \in {EmitBefore, EmitBefore + 1}
        /\ nSteps' \in {StepsBefore, StepsBefore + 1}
        /\ nEmit' = EmitBefore + 1 => isSolving']_vars
  /\ [](isSolving => (trace # <<>> /\ SuspendedAfter(trace[Len(trace)])))

\* suspended after a removal, three activations deep
C19_Witness ==
  /\ isSolving
  /\ Len(stack) >= 3
  /\ stack[Len(stack)].pc = "removed"
  /\ trace[Len(trace)].op = "remove"
  /\ nEmit = nSteps

----------------------------------------------------------------------------
(* C20: a board with no empty cell makes solveSudoku return true at once,  *)
(* with no placement and no snapshot: the Solve click that starts the run  *)
(* ends it, and the board on display is still the board of the click.      *)
(* (Empty is what the code calls empty, a null cell; a board that has no   *)
(* null and no 0 cell is the case where nothing at all is left to fill.)   *)
C20_FullBoardSucceedsAtOnce ==
  (runs > 0 /\ EmptyCells(startBoard) = {}) =>
    /\ result = "true"
    /\ ~isSolving
    /\ nSteps = 0 /\ nEmit = 0
    /\ trace = <<>> /\ snaps = <<>>
    /\ board = uiBoard /\ shown = startBoard

\* Solve was clicked on the completed reference grid
C20_Witness ==
  /\ runs > 0
  /\ startBoard = solvedGrid
  /\ result = "true"
  /\ nSteps = 0 /\ nEmit = 0
  /\ shown = solvedGrid

----------------------------------------------------------------------------
(* C21: on the demo board, after any cell clicks, number-pad clicks and    *)
(* Clear clicks every cell holds the empty marker null or a digit 1..9;    *)
(* Clear leaves the selected cell empty.  (Clear stores 0, which the       *)
(* solver does not take for an empty cell.)                                *)

C21_CellsNullOrDigit ==
  \A p \in Pos : At(shown, p) \in {null} \cup Digits

\* what holds instead: a cell holds null, a digit, or the 0 that Clear
\* wrote, and the givens keep their values
CellsNullZeroOrDigit ==
  \A p \in Pos :
    /\ At(shown, p) \in {null, 0} \cup Digits
    /\ demoInitialBoardState[p[1]][p[2]] => At(shown, p) = At(exampleBoard, p)

----------------------------------------------------------------------------
(* C22: leaving step mode puts the board back to the state it had before   *)
(* step mode was entered, and leaves no current step: isStepMode false,    *)
(* currentStepIndex -1, no solution steps.                                 *)

C22_ExitRestoresBoard ==
  [][(isStepMode /\ ~isStepMode')
       => /\ gBoard' = stepEntryBoard
          /\ currentStepIndex' = -1
          /\ solutionSteps' = <<>>]_vars

\* what holds instead: leaving step mode leaves no current step, and the
\* board is a newly generated puzzle with nothing entered
ExitStartsNewPuzzle ==
  [][(isStepMode /\ ~isStepMode')
       => /\ currentStepIndex' = -1
          /\ solutionSteps' = <<>>
          /\ gBoard' \in GeneratedPuzzles
          /\ initialBoardState' = initialCells(gBoard')
          /\ score' = 0]_vars

\* in step mode the board on display is the board of the current step
StepBoardShown ==
  isStepMode => /\ currentStepIndex \in 0..(Len(solutionSteps) - 1)
                /\ gBoard = solutionSteps[currentStepIndex + 1].board

----------------------------------------------------------------------------
\* the cells in which two boards differ
Differ(a, b) == {p \in Pos : At(a, p) # At(b, p)}

Placement(a, b) ==
  LET d == Differ(a, b)
  IN Cardinality(d) = 1 /\ \A p \in d : At(a, p) = null /\ At(b, p) \in Digits

Removal(a, b) ==
  LET d == Differ(a, b)
  IN Cardinality(d) = 1 /\ \A p \in d : At(a, p) \in Digits /\ At(b, p) = null

(* C23: consecutive snapshots of a run differ in exactly one cell.  Each   *)
(* snapshot, as it was handed to setBoard, differs from the one before it  *)
(* (the first: from the starting board) in one cell, which went from null  *)
(* to a digit 1..9 (placement) or from a digit to null (removal).          *)
C23_SnapshotsOneCellApart ==
  /\ \A i \in DOMAIN snaps :
       i > 1 => \/ Placement(snaps[i - 1].val, snaps[i].val)
                \/ Removal(snaps[i - 1].val, snaps[i].val)
  /\ (snaps # <<>> /\ nEmit <= MaxLog) => Placement(startBoard, snaps[1].val)

\* the snapshots remembered hold a placement after a removal, and the first
\* snapshot of the run is among them
C23_Witness ==
  /\ snaps # <<>>
  /\ nEmit <= MaxLog
  /\ \E i \in DOMAIN snaps :
       /\ i > 2
       /\ Removal(snaps[i - 2].val, snaps[i - 1].val)
       /\ Placement(snaps[i - 1].val, snaps[i].val)

----------------------------------------------------------------------------
\* b holds what the starting board held in every cell that was not null
KeepsFilled(b) ==
  \A p \in Pos : At(startBoard, p) # null => At(b, p) = At(startBoard, p)

(* C24: the solver never alters a pre-filled cell.  Every snapshot of a    *)
(* run, as it was handed to setBoard and as it is now, the board on        *)
(* display during and after the run, and the board the search was called   *)
(* with hold the starting board's value in every cell that was not null at *)
(* the start (a digit, or the 0 of the Clear button).                      *)
C24_PrefilledKept ==
  runs > 0 =>
    /\ \A i \in DOMAIN snaps :
         KeepsFilled(snaps[i].val) /\ KeepsFilled(Deref(heap, snaps[i].ref))
    /\ KeepsFilled(shown)
    /\ KeepsFilled(argument)

\* a run that placed numbers has ended with success on a board with a
\* cleared cell: the board on display is not the starting board
C24_Witness ==
  /\ result = "true"
  /\ nEmit > 0
  /\ shown # startBoard
  /\ \E p \in Pos : At(startBoard, p) = 0
  /\ \E p \in Pos : At(startBoard, p) \in Digits /\ At(shown, p) = At(startBoard, p)

====
